---- MODULE Spec2Model ----
(***************************************************************************)
(* PyChess 2: the board (lib/board.py) and the move protocol of its pieces *)
(* (lib/pieces.py).  The live Board object is one record-valued variable;  *)
(* every call of Piece.move / Pawn.move is one step.                       *)
(***************************************************************************)
EXTENDS Integers, Sequences, FiniteSets, TLC

VARIABLES board, last, hist

vars == <<board, last, hist>>

\* ------------------------------------------------------------------ bounds
\* Number of move() calls (successful or raising) made on one board.
MaxCalls == 2

\* ------------------------------------------------------------- coordinates
\* Coordinate.__init__ accepts an axis index i only when 0 <= i < 26.
CoordLimit == 26

\* Python's None where a Coordinate is expected (board.en_passant).
NoneCoord == <<-1, -1>>

\* Coordinate.__init__: the range test that raises IndexError.
Coordinate_ok(c) == /\ 0 <= c[1] /\ c[1] < CoordLimit
                    /\ 0 <= c[2] /\ c[2] < CoordLimit

\* Coordinate.__add__: the shifted pair; the caller tests Coordinate_ok.
Coordinate_add(c, step) == <<c[1] + step[1], c[2] + step[2]>>

\* ------------------------------------------------------------------ colors
PLAYER_COLORS == {"WHITE", "BLACK"}

Colors == {"NEUTRAL", "WHITE", "BLACK"}

\* Color.next: defined for the two player colors, ValueError otherwise.
Color_has_next(c) == c \in PLAYER_COLORS

Color_next(c) == IF c = "WHITE" THEN "BLACK" ELSE "WHITE"

\* ------------------------------------------------------------------ pieces
Kinds == {"Amazon", "Bishop", "Princess", "King", "Knight", "Empress",
          "Pawn", "Queen", "Rook", "Nightrider", "Piece"}

\* Python's None where a Piece (or a piece type) is expected.
NonePiece == [kind |-> "None", color |-> "NEUTRAL", pos |-> NoneCoord,
              board |-> "None", id |-> 0]

\* Piece.__init__ (and Pawn.__init__ before it): the new object.  id stands
\* for the object's identity.
Piece_init(kind, position, color, board_ref, id) ==
    [kind |-> kind, color |-> color, pos |-> position, board |-> board_ref,
     id |-> id]

\* Pawn.__init__ raises ValueError for a color that is not a player color.
Piece_init_raises(kind, color) == kind = "Pawn" /\ color \notin PLAYER_COLORS

STANDARD_PIECE_TABLE ==
    [s \in {"A", "B", "C", "K", "N", "M", "P", "Q", "R", "S", "-"} |->
        CASE s = "A" -> "Amazon"
          [] s = "B" -> "Bishop"
          [] s = "C" -> "Princess"
          [] s = "K" -> "King"
          [] s = "N" -> "Knight"
          [] s = "M" -> "Empress"
          [] s = "P" -> "Pawn"
          [] s = "Q" -> "Queen"
          [] s = "R" -> "Rook"
          [] s = "S" -> "Nightrider"
          [] s = "-" -> "Piece"]

\* ------------------------------------------------------- characters of a FEN
Lower == <<"a", "b", "c", "d", "e", "f", "g", "h", "i", "j", "k", "l", "m",
           "n", "o", "p", "q", "r", "s", "t", "u", "v", "w", "x", "y", "z">>

Upper == <<"A", "B", "C", "D", "E", "F", "G", "H", "I", "J", "K", "L", "M",
           "N", "O", "P", "Q", "R", "S", "T", "U", "V", "W", "X", "Y", "Z">>

DigitChars == <<"0", "1", "2", "3", "4", "5", "6", "7", "8", "9">>

IndexIn(seq, ch) == CHOOSE i \in 1..Len(seq) : seq[i] = ch

islower(ch) == \E i \in 1..Len(Lower) : Lower[i] = ch

isupper(ch) == \E i \in 1..Len(Upper) : Upper[i] = ch

isdigit(ch) == \E i \in 1..Len(DigitChars) : DigitChars[i] = ch

upper(ch) == IF islower(ch) THEN Upper[IndexIn(Lower, ch)] ELSE ch

\* int() of a string of decimal digits, given as a sequence of characters.
RECURSIVE int(_)
int(digits) ==
    IF Len(digits) = 0 THEN 0
    ELSE 10 * int(SubSeq(digits, 1, Len(digits) - 1))
         + (IndexIn(DigitChars, digits[Len(digits)]) - 1)

\* Coordinate.__init__ on a string: letter, then the 1-based rank.
Coordinate_str(s) == <<IndexIn(Lower, s[1]) - 1, int(Tail(s)) - 1>>

\* ------------------------------------------------------------ the mapping
Put(f, k, v) == [x \in (DOMAIN f) \cup {k} |-> IF x = k THEN v ELSE f[x]]

Del(f, k) == [x \in (DOMAIN f) \ {k} |-> f[x]]

Reverse(s) == [i \in 1..Len(s) |-> s[Len(s) + 1 - i]]

\* --------------------------------------------------------------- archives
\* BoardArchive.__init__ without shallow_copy: the archive holds the piece
\* objects of the source themselves.
BoardArchive_shared(source) ==
    [castling_rights |-> source.castling_rights,
     files |-> source.files,
     pawn_ranks |-> source.pawn_ranks,
     piece_array |-> [location \in DOMAIN source.piece_array |->
                        [source.piece_array[location]
                            EXCEPT !.board = "BoardArchive"]],
     ranks |-> source.ranks,
     turn |-> source.turn]

\* BoardArchive.__init__: the fields of the source and a shallow copy of
\* every piece with its board reference set to the archive.  A copy is a
\* new object; its identity is not tracked (id 0).
BoardArchive(source) ==
    [castling_rights |-> source.castling_rights,
     files |-> source.files,
     pawn_ranks |-> source.pawn_ranks,
     piece_array |-> [location \in DOMAIN source.piece_array |->
                        [source.piece_array[location]
                            EXCEPT !.board = "BoardArchive", !.id = 0]],
     ranks |-> source.ranks,
     turn |-> source.turn]

\* --------------------------------------------------- Board: clock methods
\* increment_halfmove with the clock left alone: the snapshot is appended,
\* `halfmove_clock += 1` is lost.
increment_halfmove_stale(b) ==
    [b EXCEPT !.archives = Append(@, BoardArchive(b))]

\* Board.increment_halfmove.  The guard of the source compares the archive
\* LIST with BoardArchiveMode.NONE (`self.archives is not ...NONE`), which
\* is true of every list, so a snapshot is appended in every mode.
increment_halfmove(b) ==
    LET b1 == [b EXCEPT !.halfmove_clock = @ + 1]
    IN  [b1 EXCEPT !.archives = Append(@, BoardArchive(b1))]

\* reset_halfmove clearing the list in every mode that archives (the test
\* `is PARTIAL` written as `is not NONE`).
reset_halfmove_unless_none(b) ==
    LET b1 == [b EXCEPT !.halfmove_clock = 0]
    IN  IF b1.archive_mode # "NONE"
        THEN [b1 EXCEPT !.archives = <<BoardArchive(b1)>>]
        ELSE b1

\* reset_halfmove without `self.archives.clear()`: the snapshot is appended
\* to the list as it is.
reset_halfmove_keep(b) ==
    LET b1 == [b EXCEPT !.halfmove_clock = 0]
    IN  IF b1.archive_mode = "PARTIAL"
        THEN [b1 EXCEPT !.archives = Append(@, BoardArchive(b1))]
        ELSE b1

\* reset_halfmove without `self.halfmove_clock = 0`: only the archive list is
\* seen to.
reset_halfmove_archives_only(b) ==
    IF b.archive_mode = "PARTIAL"
    THEN [b EXCEPT !.archives = <<BoardArchive(b)>>]
    ELSE b

\* Board.reset_halfmove: zero the clock; in PARTIAL mode clear the list and
\* seed it with a snapshot of the board as it is at this point.
reset_halfmove(b) ==
    LET b1 == [b EXCEPT !.halfmove_clock = 0]
    IN  IF b1.archive_mode = "PARTIAL"
        THEN [b1 EXCEPT !.archives = <<BoardArchive(b1)>>]
        ELSE b1

\* --------------------------------------------------- Board: item protocol
\* Board.__setitem__: IndexError when key.file > files or key.rank > ranks.
Board_setitem_raises(b, key) == key[1] > b.files \/ key[2] > b.ranks

Board_setitem(b, key, value) == [b EXCEPT !.piece_array = Put(@, key, value)]

\* __delitem__ that leaves the map as it is.
Board_delitem_lost(b, key) == b

\* __delitem__ that also revokes the castling rights when a piece leaves its
\* square.
Board_delitem_revoking(b, key) ==
    [b EXCEPT !.piece_array = Del(@, key), !.castling_rights = {}]

\* Board.__delitem__: KeyError when the square is empty.
Board_delitem(b, key) == [b EXCEPT !.piece_array = Del(@, key)]

\* Board.__contains__ (MutableMapping): is the square occupied.
Board_contains(b, key) == key \in DOMAIN b.piece_array

\* `try: x = board[key]  except KeyError: x = None`
Board_get(b, key) ==
    IF Board_contains(b, key) THEN b.piece_array[key] ELSE NonePiece

\* ------------------------------------------------------ Board.__init__
\* One row of the placement field: digits accumulate in digit_buffer, any
\* other character flushes the buffer into file and places a piece.
RECURSIVE RowScan(_, _, _, _, _, _, _)
RowScan(row, i, file, digit_buffer, rank, arr, piece_table) ==
    IF i > Len(row)
    THEN [raised |-> "none", arr |-> arr,
          file |-> IF Len(digit_buffer) > 0 THEN file + int(digit_buffer)
                   ELSE file]
    ELSE LET char == row[i] IN
         IF isdigit(char)
         THEN RowScan(row, i + 1, file, Append(digit_buffer, char), rank, arr,
                      piece_table)
         ELSE LET file1 == IF Len(digit_buffer) > 0
                           THEN file + int(digit_buffer) ELSE file
                  pos == <<file1, rank>>
                  color == IF islower(char) THEN "BLACK"
                           ELSE IF isupper(char) THEN "WHITE" ELSE "NEUTRAL"
              IN  IF ~Coordinate_ok(pos)
                  THEN [raised |-> "IndexError", arr |-> arr, file |-> file1]
                  ELSE IF upper(char) \notin DOMAIN piece_table
                  THEN [raised |-> "KeyError", arr |-> arr, file |-> file1]
                  ELSE IF Piece_init_raises(piece_table[upper(char)], color)
                  THEN [raised |-> "ValueError", arr |-> arr, file |-> file1]
                  ELSE RowScan(row, i + 1, file1 + 1, <<>>, rank,
                               Put(arr, pos,
                                   Piece_init(piece_table[upper(char)], pos,
                                              color, "Board",
                                              Cardinality(DOMAIN arr) + 1)),
                               piece_table)

\* The loop over the ranks; num_files = -1 stands for None.
RECURSIVE RanksScan(_, _, _, _, _)
RanksScan(rank_data, rank, num_files, arr, piece_table) ==
    IF rank >= Len(rank_data)
    THEN [raised |-> "none", arr |-> arr, num_files |-> num_files]
    ELSE LET r == RowScan(rank_data[rank + 1], 1, 0, <<>>, rank, arr,
                          piece_table)
         IN  IF r.raised # "none"
             THEN [raised |-> r.raised, arr |-> r.arr, num_files |-> num_files]
             ELSE IF r.file # num_files /\ num_files # -1
             THEN [raised |-> "ValueError", arr |-> r.arr,
                   num_files |-> num_files]
             ELSE RanksScan(rank_data, rank + 1, r.file, r.arr, piece_table)

\* The castling field: one flag per letter found in it.
CastlingOf(field) ==
    {f \in {"WHITE_KINGSIDE", "WHITE_QUEENSIDE", "BLACK_KINGSIDE",
            "BLACK_QUEENSIDE"} :
        \E i \in 1..Len(field) :
            field[i] = (CASE f = "WHITE_KINGSIDE" -> "K"
                          [] f = "WHITE_QUEENSIDE" -> "Q"
                          [] f = "BLACK_KINGSIDE" -> "k"
                          [] f = "BLACK_QUEENSIDE" -> "q")}

\* Board.__init__.  fen is the sequence of its space-separated fields, each
\* a sequence of characters; field 1 is the sequence of its "/"-separated
\* rows.  pawn_ranks is a function from the colors supplied to ranks.  The
\* result is the error raised, or "none" and the constructed board.
Board_init(fen, piece_table, archive_mode, pawn_ranks) ==
    LET Fail(e) == [raised |-> e, board |-> <<>>]
        rank_data == Reverse(fen[1])
        ranks == Len(rank_data)
        scan == RanksScan(rank_data, 0, -1, <<>>, piece_table)
        \* `case {}:` is tried first and matches every mapping
        pawn_ranks_mem == [c \in PLAYER_COLORS |->
                              IF c = "WHITE" THEN 1 ELSE ranks - 2]
        b0 == [archive_mode |-> archive_mode,
               archives |-> <<>>,
               castling_rights |-> CastlingOf(fen[3]),
               en_passant |-> IF fen[4] = <<"-">> THEN NoneCoord
                              ELSE Coordinate_str(fen[4]),
               files |-> scan.num_files,
               first_player |-> IF fen[2] = <<"w">> THEN "WHITE" ELSE "BLACK",
               fullmove_clock |-> int(fen[6]),
               halfmove_clock |-> int(fen[5]),
               pawn_ranks |-> pawn_ranks_mem,
               piece_array |-> scan.arr,
               ranks |-> ranks,
               turn |-> IF fen[2] = <<"w">> THEN "WHITE" ELSE "BLACK"]
    IN  IF Len(fen) # 6 THEN Fail("ValueError")
        ELSE IF \E c \in DOMAIN pawn_ranks :
                    \/ c \notin PLAYER_COLORS
                    \/ (0 <= pawn_ranks[c] /\ pawn_ranks[c] < ranks)
        THEN Fail("ValueError")
        ELSE IF ranks > 26 THEN Fail("ValueError")
        ELSE IF scan.raised # "none" THEN Fail(scan.raised)
        ELSE IF scan.num_files > 25 THEN Fail("ValueError")
        ELSE IF fen[2] \notin {<<"w">>, <<"b">>} THEN Fail("ValueError")
        ELSE IF fen[4] # <<"-">> /\ ~Coordinate_ok(Coordinate_str(fen[4]))
        THEN Fail("IndexError")
        ELSE [raised |-> "none",
              board |-> [b0 EXCEPT !.archives =
                            IF archive_mode = "NONE" THEN <<>>
                            ELSE <<BoardArchive(b0)>>]]

\* ------------------------------------------------------------- move()
\* What one call of move() leaves behind: the exception raised ("none" when
\* it returned), the board, the value returned (NonePiece for None) and the
\* clock method it called.
Outcome(raised, b, ret, clock) ==
    [raised |-> raised, board |-> b, ret |-> ret, clock |-> clock]

\* `x += (turn == first_player)`
Bool(p) == IF p THEN 1 ELSE 0

\* abs for a test `>= 2` in place of `== 2`: whatever is more than two ranks
\* counts as two.
abs_at_least(n) == IF n < -2 \/ n > 2 THEN 2 ELSE IF n < 0 THEN -n ELSE n

abs(n) == IF n < 0 THEN -n ELSE n

\* Piece.move of `self`, a piece whose board is b.  fresh is the identity of
\* the object a promotion constructs.
Piece_move(b, self, dest, promotion, fresh) ==
    IF dest[1] > b.files \/ dest[2] > b.ranks
    THEN Outcome("IndexError", b, NonePiece, "none")
    ELSE
    LET b1 == [b EXCEPT !.en_passant = NoneCoord] IN
    IF ~Color_has_next(b1.turn)
    THEN Outcome("ValueError", b1, NonePiece, "none")
    ELSE
    LET b2 == [b1 EXCEPT !.turn = Color_next(@)]
        b3 == [b2 EXCEPT !.fullmove_clock =
                            @ + Bool(b2.turn = b2.first_player)]
        captured_piece == Board_get(b3, dest)
    IN
    IF ~Board_contains(b3, self.pos)
    THEN Outcome("KeyError", b3, NonePiece, "none")
    ELSE
    LET b4 == Board_delitem(b3, self.pos) IN
    IF promotion # "None" /\ Piece_init_raises(promotion, self.color)
    THEN Outcome("ValueError", b4, NonePiece, "none")
    ELSE
    LET placed == IF promotion = "None" THEN [self EXCEPT !.pos = dest]
                  ELSE Piece_init(promotion, dest, self.color, self.board,
                                  fresh)
    IN
    IF Board_setitem_raises(b4, dest)
    THEN Outcome("IndexError", b4, NonePiece, "none")
    ELSE
    LET b5 == Board_setitem(b4, dest, placed) IN
    IF captured_piece = NonePiece
    THEN Outcome("none", increment_halfmove(b5), captured_piece, "increment")
    ELSE Outcome("none", reset_halfmove(b5), captured_piece, "reset")

\* Pawn.move: `match self.color` sets reverse_step to (0, 1) for WHITE and
\* to (0, -1) for BLACK.
reverse_step(color) == IF color = "WHITE" THEN <<0, 1>> ELSE <<0, -1>>

\* Pawn.move of `self`, a pawn whose board is b.
Pawn_move(b, self, dest, promotion, fresh) ==
    LET b1 == reset_halfmove(b) IN
    IF ~Color_has_next(b1.turn)
    THEN Outcome("ValueError", b1, NonePiece, "reset")
    ELSE
    LET b2 == [b1 EXCEPT !.turn = Color_next(@)]
        b3 == [b2 EXCEPT !.fullmove_clock =
                            @ + Bool(b2.turn = b2.first_player)]
        behind == Coordinate_add(dest, reverse_step(self.color))
        onto_en_passant == dest = b3.en_passant
        two_ranks == abs(self.pos[2] - dest[2]) = 2
        b3c == [b3 EXCEPT !.en_passant = NoneCoord]
    IN
    IF onto_en_passant /\ ~Coordinate_ok(behind)
    THEN Outcome("IndexError", b3c, NonePiece, "reset")
    ELSE IF ~onto_en_passant /\ two_ranks /\ ~Coordinate_ok(behind)
    THEN Outcome("IndexError", b3, NonePiece, "reset")
    ELSE
    LET captured_piece == IF onto_en_passant THEN Board_get(b3c, behind)
                          ELSE Board_get(b3, dest)
        b4 == IF onto_en_passant
              THEN (IF Board_contains(b3c, behind)
                    THEN Board_delitem(b3c, behind) ELSE b3c)
              ELSE [b3 EXCEPT !.en_passant =
                                IF two_ranks THEN behind ELSE NoneCoord]
    IN
    IF ~Board_contains(b4, self.pos)
    THEN Outcome("KeyError", b4, NonePiece, "reset")
    ELSE
    LET b5 == Board_delitem(b4, self.pos) IN
    IF promotion # "None" /\ Piece_init_raises(promotion, self.color)
    THEN Outcome("ValueError", b5, NonePiece, "reset")
    ELSE
    LET placed == IF promotion = "None" THEN [self EXCEPT !.pos = dest]
                  ELSE Piece_init(promotion, dest, self.color, self.board,
                                  fresh)
    IN
    IF Board_setitem_raises(b5, dest)
    THEN Outcome("IndexError", b5, NonePiece, "reset")
    ELSE Outcome("none", Board_setitem(b5, dest, placed), captured_piece,
                 "reset")

\* --------------------------------------------------------------- moves()
\* leap that gives the square only when nothing stands on it.
leap_onto_empty(b, piece, step) ==
    LET test_pos == Coordinate_add(piece.pos, step) IN
    IF ~Coordinate_ok(test_pos) THEN {}
    ELSE IF test_pos[1] >= b.files \/ test_pos[2] >= b.ranks THEN {}
    ELSE IF Board_contains(b, test_pos) THEN {}
    ELSE {test_pos}

\* leap(piece, step): the square at piece.pos + step when Coordinate accepts
\* it and it is inside the board b of the piece, else nothing.
leap(b, piece, step) ==
    LET test_pos == Coordinate_add(piece.pos, step) IN
    IF ~Coordinate_ok(test_pos) THEN {}
    ELSE IF test_pos[1] >= b.files \/ test_pos[2] >= b.ranks THEN {}
    ELSE {test_pos}

\* The loop of ride without `if test_pos in piece.board: return`: the line
\* runs through occupied squares to the edge.
RECURSIVE ride_loop_through(_, _, _, _)
ride_loop_through(b, test_pos, step, positions) ==
    LET next_pos == Coordinate_add(test_pos, step) IN
    IF ~Coordinate_ok(next_pos) THEN positions
    ELSE IF next_pos[1] >= b.files \/ next_pos[2] >= b.ranks THEN positions
    ELSE ride_loop_through(b, next_pos, step, positions \cup {next_pos})

\* The `while True` loop of ride: one more step from test_pos.
RECURSIVE ride_loop(_, _, _, _)
ride_loop(b, test_pos, step, positions) ==
    LET next_pos == Coordinate_add(test_pos, step) IN
    IF ~Coordinate_ok(next_pos) THEN positions
    ELSE IF next_pos[1] >= b.files \/ next_pos[2] >= b.ranks THEN positions
    ELSE IF Board_contains(b, next_pos) THEN positions \cup {next_pos}
    ELSE ride_loop(b, next_pos, step, positions \cup {next_pos})

\* ride(piece, step): the squares from the piece along step up to and with
\* the first occupied one, or up to the edge.
ride(b, piece, step) == ride_loop(b, piece.pos, step, {})

\* The eight reflections and rotations of a step, as sym_leap and sym_ride
\* list them.
Symmetries(step) ==
    {<<step[1], step[2]>>, <<-step[1], step[2]>>, <<step[1], -step[2]>>,
     <<-step[1], -step[2]>>, <<step[2], step[1]>>, <<-step[2], step[1]>>,
     <<step[2], -step[1]>>, <<-step[2], -step[1]>>}

sym_leap(b, piece, step) == UNION {leap(b, piece, s) : s \in Symmetries(step)}

sym_ride(b, piece, step) == UNION {ride(b, piece, s) : s \in Symmetries(step)}

\* Pawn.moves: `match self.color` sets base_step.
base_step(color) == IF color = "WHITE" THEN <<0, 1>> ELSE <<0, -1>>

\* Pawn.moves of a pawn whose board is b.
Pawn_moves(b, self) ==
    LET ahead == Coordinate_add(self.pos, base_step(self.color))
        ahead2 == Coordinate_add(ahead, base_step(self.color))
        left == Coordinate_add(ahead, <<-1, 0>>)
        right == Coordinate_add(ahead, <<1, 0>>)
        forward ==
            IF Board_contains(b, ahead) THEN {}
            ELSE {ahead} \cup
                 (IF /\ self.pos[2] = b.pawn_ranks[self.color]
                     /\ Coordinate_ok(ahead2) /\ ahead2[2] < b.ranks
                     /\ ~Board_contains(b, ahead2)
                  THEN {ahead2} ELSE {})
        takes(test_pos) == test_pos = b.en_passant \/ Board_contains(b, test_pos)
    IN  IF ~Coordinate_ok(ahead) \/ ahead[2] >= b.ranks THEN {}
        ELSE forward
             \cup (IF Coordinate_ok(left) /\ takes(left) THEN {left} ELSE {})
             \cup (IF Coordinate_ok(right) /\ right[1] < b.files
                      /\ takes(right)
                   THEN {right} ELSE {})

\* piece.moves() for a piece whose board is b, by the class of the piece.
Piece_moves(b, self) ==
    CASE self.kind = "Amazon" ->
            sym_ride(b, self, <<1, 0>>) \cup sym_ride(b, self, <<1, 1>>)
                \cup sym_leap(b, self, <<2, 1>>)
      [] self.kind = "Bishop" -> sym_ride(b, self, <<1, 1>>)
      [] self.kind = "Empress" ->
            sym_ride(b, self, <<1, 0>>) \cup sym_leap(b, self, <<2, 1>>)
      [] self.kind = "King" ->
            sym_leap(b, self, <<1, 0>>) \cup sym_leap(b, self, <<1, 1>>)
      [] self.kind = "Knight" -> sym_leap(b, self, <<2, 1>>)
      [] self.kind = "Nightrider" -> sym_ride(b, self, <<2, 1>>)
      [] self.kind = "Pawn" -> Pawn_moves(b, self)
      [] self.kind = "Princess" ->
            sym_ride(b, self, <<1, 1>>) \cup sym_leap(b, self, <<2, 1>>)
      [] self.kind = "Queen" ->
            sym_ride(b, self, <<1, 0>>) \cup sym_ride(b, self, <<1, 1>>)
      [] self.kind = "Rook" -> sym_ride(b, self, <<1, 0>>)
      [] OTHER -> {}

\* attacked_by: the scan order of all_pairs(range(ranks), range(files)),
\* as square numbers 0 .. ranks * files - 1, rank by rank.
ScanSquare(b, n) == <<n % b.files, n \div b.files>>

\* The loop of attacked_by from square number n on.  board[Coordinate(file,
\* rank)] raises KeyError on an empty square; attackers.add(piece) raises
\* TypeError, Piece defining __eq__ and no __hash__.
RECURSIVE attacked_by_loop(_, _, _)
attacked_by_loop(b, self, n) ==
    IF n >= b.ranks * b.files THEN [raised |-> "none", ret |-> {}]
    ELSE IF ~Board_contains(b, ScanSquare(b, n))
    THEN [raised |-> "KeyError", ret |-> {}]
    ELSE LET piece_of_interest == b.piece_array[ScanSquare(b, n)] IN
         IF /\ self.color # piece_of_interest.color
            /\ self.pos \in Piece_moves(b, piece_of_interest)
         THEN [raised |-> "TypeError", ret |-> {}]
         ELSE attacked_by_loop(b, self, n + 1)

\* Piece.attacked_by of a piece whose board is b: the exception raised and
\* the set returned.
attacked_by(b, self) == attacked_by_loop(b, self, 0)

\* ------------------------------------------------------------- equality
\* isinstance(x, Board) and isinstance(x, BoardArchive) for the records of
\* this model: only a Board has an archive mode.
isBoard(x) == "archive_mode" \in DOMAIN x

isBoardArchive(x) == ~isBoard(x) /\ "piece_array" \in DOMAIN x

\* What an __eq__ method returns.
TrueFalse(p) == IF p THEN "True" ELSE "False"

\* Piece.__eq__: the colors compared for two pieces of one type, else
\* NotImplemented.
Piece_eq(self, other) ==
    IF self.kind = other.kind THEN TrueFalse(self.color = other.color)
    ELSE "NotImplemented"

\* `p == q` for two pieces: p.__eq__(q), then the reflected q.__eq__(p),
\* then identity.
Piece_equals(p, q) ==
    IF Piece_eq(p, q) # "NotImplemented" THEN Piece_eq(p, q) = "True"
    ELSE IF Piece_eq(q, p) # "NotImplemented" THEN Piece_eq(q, p) = "True"
    ELSE p = q

\* `d1 == d2` for two dicts from Coordinate to Piece.
Dict_equals(d1, d2) ==
    /\ DOMAIN d1 = DOMAIN d2
    /\ \A key \in DOMAIN d1 : Piece_equals(d1[key], d2[key])

\* Board.__eq__ answering False, not NotImplemented, to what is not a Board.
Board_eq_refusing(self, other) ==
    IF isBoard(other)
    THEN TrueFalse(/\ Dict_equals(self.piece_array, other.piece_array)
                   /\ self.castling_rights = other.castling_rights
                   /\ self.files = other.files
                   /\ self.pawn_ranks = other.pawn_ranks
                   /\ self.ranks = other.ranks
                   /\ self.turn = other.turn)
    ELSE "False"

\* Board.__eq__.
Board_eq(self, other) ==
    IF isBoard(other)
    THEN TrueFalse(/\ Dict_equals(self.piece_array, other.piece_array)
                   /\ self.castling_rights = other.castling_rights
                   /\ self.files = other.files
                   /\ self.pawn_ranks = other.pawn_ranks
                   /\ self.ranks = other.ranks
                   /\ self.turn = other.turn)
    ELSE "NotImplemented"

\* BoardArchive.__eq__.
BoardArchive_eq(self, other) ==
    IF isBoardArchive(other)
    THEN TrueFalse(/\ self.castling_rights = other.castling_rights
                   /\ self.files = other.files
                   /\ self.pawn_ranks = other.pawn_ranks
                   /\ Dict_equals(self.piece_array, other.piece_array)
                   /\ self.ranks = other.ranks
                   /\ self.turn = other.turn)
    ELSE IF isBoard(other)
    THEN TrueFalse(/\ self.castling_rights = other.castling_rights
                   /\ self.files = other.files
                   /\ self.pawn_ranks = other.pawn_ranks
                   /\ Dict_equals(self.piece_array, other.piece_array)
                   /\ self.ranks = other.ranks
                   /\ self.turn = other.turn)
    ELSE "NotImplemented"

\* x.__eq__(y) by the class of x.
Dunder_eq(x, y) == IF isBoard(x) THEN Board_eq(x, y) ELSE BoardArchive_eq(x, y)

\* `x == y` for boards and archives: x.__eq__(y), then the reflected
\* y.__eq__(x), then identity.
Equals(x, y) ==
    IF Dunder_eq(x, y) # "NotImplemented" THEN Dunder_eq(x, y) = "True"
    ELSE IF Dunder_eq(y, x) # "NotImplemented" THEN Dunder_eq(y, x) = "True"
    ELSE x = y

\* ------------------------------------------------------------ the inputs
\* Starting positions, as FEN fields.  FEN_A: "2/p1/1P/-1 w - - 3 5";
\* FEN_B, after a double step to b4: "pP/2/2/R1 b Kq b3 0 1".
FEN_A == << << <<"2">>, <<"p", "1">>, <<"1", "P">>, <<"-", "1">> >>,
            <<"w">>, <<"-">>, <<"-">>, <<"3">>, <<"5">> >>

FEN_B == << << <<"p", "P">>, <<"2">>, <<"2">>, <<"R", "1">> >>,
            <<"b">>, <<"K", "q">>, <<"b", "3">>, <<"0">>, <<"1">> >>

FENs == {FEN_A, FEN_B}

ArchiveModes == {"NONE", "PARTIAL", "FULL"}

\* Destinations tried: every square of the board, and four coordinates off
\* it: on each axis the index equal to the board's size and the one after.
Dests(b) ==
    ((0..(b.files - 1)) \X (0..(b.ranks - 1)))
        \cup {<<b.files, 0>>, <<b.files + 1, 0>>,
              <<0, b.ranks>>, <<0, b.ranks + 1>>}

\* Promotion arguments tried with a destination: always none; a queen when
\* the destination is on the first rank, on the last rank or past it; a
\* pawn as well when the mover is neutral (the one case Pawn.__init__
\* refuses).
Promotions(b, self, dest) ==
    {"None"}
        \cup (IF dest[2] = 0 \/ dest[2] >= b.ranks - 1
              THEN {"Queen"} \cup (IF self.color = "NEUTRAL" THEN {"Pawn"}
                                   ELSE {})
              ELSE {})

\* ------------------------------------------------------- the state machine
Init ==
    \E fen \in FENs, archive_mode \in ArchiveModes :
        LET made == Board_init(fen, STANDARD_PIECE_TABLE, archive_mode, <<>>)
        IN  /\ made.raised = "none"
            /\ board = made.board
            /\ last = [op |-> "init", self |-> NonePiece, dest |-> NoneCoord,
                       promotion |-> "None", raised |-> "none",
                       ret |-> NonePiece, clock |-> "none",
                       pre |-> made.board]
            /\ hist = [calls |-> 0, moves |-> 0, increments |-> 0,
                       resets |-> 0, objects |-> Cardinality(DOMAIN
                                                    made.board.piece_array),
                       fullmove0 |-> made.board.fullmove_clock]

\* One call piece.move(dest, promotion) and its record in last and hist.
Call(op, o, self, dest, promotion) ==
    /\ board' = o.board
    /\ last' = [op |-> op, self |-> self, dest |-> dest,
                promotion |-> promotion, raised |-> o.raised, ret |-> o.ret,
                clock |-> o.clock, pre |-> board]
    /\ hist' = [hist EXCEPT
                  !.calls = @ + 1,
                  !.moves = @ + Bool(o.raised = "none"),
                  !.increments = @ + Bool(o.clock = "increment"),
                  !.resets = @ + Bool(o.clock = "reset"),
                  !.objects = @ + Bool(promotion # "None")]

\* board[src].move(dest, promotion) for a piece that is not a pawn.
PieceMove ==
    /\ hist.calls < MaxCalls
    /\ \E src \in DOMAIN board.piece_array, dest \in Dests(board) :
        LET self == board.piece_array[src] IN
        /\ self.kind # "Pawn"
        /\ \E promotion \in Promotions(board, self, dest) :
           Call("Piece.move",
                Piece_move(board, self, dest, promotion, hist.objects + 1),
                self, dest, promotion)

\* board[src].move(dest, promotion) for a pawn.
PawnMove ==
    /\ hist.calls < MaxCalls
    /\ \E src \in DOMAIN board.piece_array, dest \in Dests(board) :
        LET self == board.piece_array[src] IN
        /\ self.kind = "Pawn"
        /\ \E promotion \in Promotions(board, self, dest) :
           Call("Pawn.move",
                Pawn_move(board, self, dest, promotion, hist.objects + 1),
                self, dest, promotion)

Next == PieceMove \/ PawnMove

Spec == Init /\ [][Next]_vars

\* ------------------------------------------- the constructor, as a call
\* The decimal digits of a number below 100, as FEN writes a run of empty
\* squares.
Digits(n) ==
    IF n < 10 THEN <<DigitChars[n + 1]>>
    ELSE <<DigitChars[(n \div 10) + 1], DigitChars[(n % 10) + 1]>>

\* One row of a placement: width squares, all empty, or all empty but a
\* White rook on the last file.
MakeRow(width, piece) ==
    IF ~piece THEN Digits(width)
    ELSE IF width = 1 THEN <<"R">>
    ELSE Digits(width - 1) \o <<"R">>

\* The FEN of the arguments a: a.ranks rows of a.files squares, the rook (if
\* any) on the first rank; when a.ragged, the row of the last rank is one
\* square wider; then the turn and castling fields, "-", "0", "1", and one
\* field less or more when a.fields is not 6.
MakeFEN(a) ==
    LET rows == [i \in 1..a.ranks |->
                    MakeRow(IF a.ragged /\ i = 1 /\ a.ranks > 1
                            THEN a.files + 1 ELSE a.files,
                            a.piece /\ i = a.ranks)]
        six == <<rows, a.turn, a.castling, <<"-">>, <<"0">>, <<"1">> >>
    IN  IF a.fields = 5 THEN SubSeq(six, 1, 5)
        ELSE IF a.fields = 7 THEN Append(six, <<"1">>)
        ELSE six

\* The pawn_ranks arguments tried: none, one color, both colors, and a rank
\* that no board has.
PawnRanksArgs ==
    {<<>>,
     [c \in {"WHITE"} |-> 1], [c \in {"BLACK"} |-> 2],
     [c \in PLAYER_COLORS |-> IF c = "WHITE" THEN 1 ELSE 2],
     [c \in {"WHITE"} |-> 30]}

\* The arguments of Board(...) tried.
NewArgs ==
    [files : {2, 25, 26, 27}, ranks : {1, 4, 26, 27},
     ragged : BOOLEAN, piece : BOOLEAN,
     turn : {<<"w">>, <<"b">>, <<"x">>},
     castling : {<<"-">>, <<"K", "q">>, <<"K", "X">>, <<"x">>},
     fields : {5, 6, 7},
     pawn_ranks : PawnRanksArgs,
     archive_mode : ArchiveModes]

\* Before the constructor is called there is no board.
NewInit ==
    /\ board = <<>>
    /\ last = [op |-> "none", raised |-> "none",
               args |-> CHOOSE a \in NewArgs : TRUE]
    /\ hist = [calls |-> 0]

\* Board(fen, STANDARD_PIECE_TABLE, archive_mode, pawn_ranks): the board it
\* makes, or the exception it raises.
Board_new ==
    /\ hist.calls = 0
    /\ \E a \in NewArgs :
        LET made == Board_init(MakeFEN(a), STANDARD_PIECE_TABLE,
                               a.archive_mode, a.pawn_ranks)
        IN  /\ board' = made.board
            /\ last' = [op |-> "Board.__init__", raised |-> made.raised,
                        args |-> a]
            /\ hist' = [calls |-> 1]

NewNext == Board_new

SpecNew == NewInit /\ [][NewNext]_vars

\* ----------------------------------------------------- Coordinate, as calls
\* Coordinate.__str__ with the rank written 0-based (`str(self.rank)`).
Coordinate__str__zero_based(c) == <<Lower[c[1] + 1]>> \o Digits(c[2])

\* Coordinate.__str__: chr(file + 97) + str(rank + 1), as characters.
Coordinate__str__(c) == <<Lower[c[1] + 1]>> \o Digits(c[2] + 1)

\* Coordinate.__init__ on a string: ValueError unless it has 2 or 3
\* characters, starts with a lowercase letter and ends with an integer from
\* 1 to 26; then the pair, range-tested like every other.
Coordinate_init_str(s) ==
    IF ~(2 <= Len(s) /\ Len(s) < 4)
    THEN [raised |-> "ValueError", ret |-> NoneCoord]
    ELSE IF ~islower(s[1])
    THEN [raised |-> "ValueError", ret |-> NoneCoord]
    ELSE IF \E i \in 2..Len(s) : ~isdigit(s[i])
    THEN [raised |-> "ValueError", ret |-> NoneCoord]
    ELSE IF ~(1 <= int(Tail(s)) /\ int(Tail(s)) < 27)
    THEN [raised |-> "ValueError", ret |-> NoneCoord]
    ELSE IF ~Coordinate_ok(Coordinate_str(s))
    THEN [raised |-> "IndexError", ret |-> NoneCoord]
    ELSE [raised |-> "none", ret |-> Coordinate_str(s)]

\* Coordinate.__eq__ for two coordinates.
Coordinate_eq(self, other) == self[1] = other[1] /\ self[2] = other[2]

\* Coordinate.__hash__: file + (rank << 5).
Coordinate_hash(self) == self[1] + self[2] * 32

\* __add__ that keeps the result on the axis instead of raising.
Coordinate__add__clamped(self, other) ==
    LET clamp(i) == IF i < 0 THEN 0
                    ELSE IF i >= CoordLimit THEN CoordLimit - 1 ELSE i
        shifted == Coordinate_add(self, other)
    IN  [raised |-> "none", ret |-> <<clamp(shifted[1]), clamp(shifted[2])>>]

\* Coordinate.__add__ of a pair of integers: the Coordinate constructed
\* from the sums, or the IndexError of its constructor.
Coordinate__add__(self, other) ==
    IF Coordinate_ok(Coordinate_add(self, other))
    THEN [raised |-> "none", ret |-> Coordinate_add(self, other)]
    ELSE [raised |-> "IndexError", ret |-> NoneCoord]

\* Every coordinate there is, and the offsets tried on each axis.
AllCoords == (0..(CoordLimit - 1)) \X (0..(CoordLimit - 1))

Offsets == {-CoordLimit, 1 - CoordLimit, -1, 0, 1, CoordLimit - 1, CoordLimit}

\* Before any call.
CoordInit ==
    /\ board = <<>>
    /\ last = [op |-> "none", self |-> NoneCoord, other |-> NoneCoord,
               text |-> <<>>, raised |-> "none", ret |-> NoneCoord]
    /\ hist = [calls |-> 0]

\* Coordinate(str(c)) for a coordinate c.
CoordinateOfStr ==
    /\ hist.calls = 0
    /\ \E c \in AllCoords :
        LET made == Coordinate_init_str(Coordinate__str__(c)) IN
        /\ last' = [op |-> "Coordinate(str)", self |-> c, other |-> NoneCoord,
                    text |-> Coordinate__str__(c), raised |-> made.raised,
                    ret |-> made.ret]
        /\ hist' = [calls |-> 1]
        /\ UNCHANGED board

\* c + (df, dr) for a coordinate c.
CoordinatePlus ==
    /\ hist.calls = 0
    /\ \E c \in AllCoords, other \in Offsets \X Offsets :
        LET sum == Coordinate__add__(c, other) IN
        /\ last' = [op |-> "Coordinate.__add__", self |-> c, other |-> other,
                    text |-> <<>>, raised |-> sum.raised, ret |-> sum.ret]
        /\ hist' = [calls |-> 1]
        /\ UNCHANGED board

CoordNext == CoordinateOfStr \/ CoordinatePlus

SpecCoord == CoordInit /\ [][CoordNext]_vars

\* ------------------------------------------------------ moves(), as a call
\* One row of a placement field: the symbols of `placed` on rank `rank`
\* from file f on, runs of empty squares written as their length.
RECURSIVE RowChars(_, _, _, _, _)
RowChars(placed, rank, files, f, run) ==
    LET gap == IF run > 0 THEN Digits(run) ELSE <<>> IN
    IF f = files THEN gap
    ELSE IF <<f, rank>> \in DOMAIN placed
    THEN gap \o <<placed[<<f, rank>>]>>
             \o RowChars(placed, rank, files, f + 1, 0)
    ELSE RowChars(placed, rank, files, f + 1, run + 1)

\* The FEN of a position: the rows from the last rank down to the first,
\* White to move, no castling rights, the en-passant field, clocks 0 and 1.
FENOf(files, ranks, placed, en_passant) ==
    << [i \in 1..ranks |-> RowChars(placed, ranks - i, files, 0, 0)],
       <<"w">>, <<"-">>,
       IF en_passant = NoneCoord THEN <<"-">>
       ELSE Coordinate__str__(en_passant),
       <<"0">>, <<"1">> >>

\* Other pieces on the board when moves() is asked: none, or one of two
\* sets of both colors.
Blockers ==
    {<<>>,
     (<<2, 2>> :> "p") @@ (<<4, 3>> :> "P") @@ (<<3, 5>> :> "n")
        @@ (<<5, 5>> :> "R") @@ (<<1, 1>> :> "b") @@ (<<0, 3>> :> "Q"),
     (<<3, 4>> :> "P") @@ (<<1, 3>> :> "p") @@ (<<3, 1>> :> "r")
        @@ (<<4, 4>> :> "N") @@ (<<2, 4>> :> "q") @@ (<<1, 2>> :> "B")}

\* The positions asked: a board size, the piece whose moves are wanted and
\* its square, the other pieces, the en-passant target.
MovesArgs ==
    {a \in [size : {<<8, 8>>, <<3, 5>>},
            symbol : {"N", "n", "R", "B", "Q", "q", "P", "p"},
            square : (0..7) \X (0..7),
            others : Blockers,
            en_passant : {NoneCoord, <<2, 2>>, <<4, 5>>}] :
        /\ a.square[1] < a.size[1] /\ a.square[2] < a.size[2]
        /\ a.en_passant = NoneCoord
              \/ (a.en_passant[1] < a.size[1] /\ a.en_passant[2] < a.size[2])}

\* The pieces of the arguments a: the others that fit the board, and the
\* piece asked on its square.
Placed(a) ==
    LET fit == {key \in DOMAIN a.others :
                    key[1] < a.size[1] /\ key[2] < a.size[2]}
    IN  (a.square :> a.symbol) @@ [key \in fit |-> a.others[key]]

\* The board constructed for one of the positions.
MovesInit ==
    \E a \in MovesArgs :
        LET made == Board_init(FENOf(a.size[1], a.size[2], Placed(a),
                                     a.en_passant),
                               STANDARD_PIECE_TABLE, "NONE", <<>>)
        IN  /\ made.raised = "none"
            /\ board = made.board
            /\ last = [op |-> "init", self |-> NonePiece, raised |-> "none",
                       ret |-> {}]
            /\ hist = [calls |-> 0]

\* piece.moves() for a piece of the board.
Moves ==
    /\ hist.calls = 0
    /\ \E key \in DOMAIN board.piece_array :
        /\ last' = [op |-> "moves", self |-> board.piece_array[key],
                    raised |-> "none",
                    ret |-> Piece_moves(board, board.piece_array[key])]
        /\ hist' = [calls |-> 1]
        /\ UNCHANGED board

MovesNext == Moves

SpecMoves == MovesInit /\ [][MovesNext]_vars


\* ------------------------------------------- board[key] = piece, as a call
MaxEdits == 1

\* Keys up to one past `files` and `ranks`, and one more.
EditKeys(b) == (0..(b.files + 1)) \X (0..(b.ranks + 1))

\* board[key] = value for a new piece made for that square.  last is the
\* call: key, value, what it raised, the board before.
SetItem ==
    /\ hist.calls < MaxEdits
    /\ \E key \in EditKeys(board), kind \in {"Knight", "Pawn"},
          color \in PLAYER_COLORS :
        LET value == Piece_init(kind, key, color, "Board", hist.objects + 1)
            raises == Board_setitem_raises(board, key)
        IN  /\ board' = IF raises THEN board
                        ELSE Board_setitem(board, key, value)
            /\ last' = [op |-> "__setitem__", key |-> key, value |-> value,
                        raised |-> IF raises THEN "IndexError" ELSE "none",
                        pre |-> board]
            /\ hist' = [hist EXCEPT !.calls = @ + 1, !.objects = @ + 1]

EditNext == SetItem

SpecEdit == Init /\ [][EditNext]_vars

\* ------------------------------ moves on a board that archives partially
\* Board(fen, ..., archive_mode=BoardArchiveMode.PARTIAL) for a FEN whose
\* halfmove clock is 0.
PartialInit == Init /\ board.archive_mode = "PARTIAL" /\ board.halfmove_clock = 0

SpecPartial == PartialInit /\ [][Next]_vars

\* ---------------------------------------------------------------- claims
\* The last step was a call of move() that returned / that raised.
Returned == last.op # "init" /\ last.raised = "none"

Raised == last.op # "init" /\ last.raised # "none"

\* (file, rank) lies on board b.
InsideBoard(b, c) == /\ 0 <= c[1] /\ c[1] < b.files
                     /\ 0 <= c[2] /\ c[2] < b.ranks

\* C1: move() is atomic: after a call of Piece.move or Pawn.move that raised,
\* the board (piece map, turn, en_passant, both clocks, archives) is exactly
\* as it was before the call.
C1_MoveIsAtomic == Raised => board = last.pre

\* C2: move(dest) fails with a range error whenever dest is not inside the
\* board, i.e. dest.file >= files or dest.rank >= ranks, for every piece kind.
C2_OutsideDestRaises ==
    (/\ last.op # "init"
     /\ (last.dest[1] >= last.pre.files \/ last.dest[2] >= last.pre.ranks))
        => last.raised = "IndexError"

\* C3: as long as every call of move() returned without raising, every piece
\* in the board's map has pos equal to its key, refers back to the board and
\* stands inside [0, files) x [0, ranks).
C3_PiecesWhereTheyAre ==
    hist.moves = hist.calls =>
        \A key \in DOMAIN board.piece_array :
            /\ board.piece_array[key].pos = key
            /\ board.piece_array[key].board = "Board"
            /\ InsideBoard(board, board.piece_array[key].pos)

\* C4: with archive_mode NONE the archive list is empty after construction
\* and stays empty after any sequence of moves.
C4_NoneKeepsNoArchives == board.archive_mode = "NONE" => board.archives = <<>>

\* C5: with archive_mode FULL the archive list is never pruned: a call keeps
\* the archives it found as a prefix of the list, every increment of the
\* halfmove clock appends exactly one snapshot, and after n increments and no
\* reset the list has n + 1 elements.
C5_FullNeverPruned ==
    board.archive_mode = "FULL" =>
        /\ Len(board.archives) >= Len(last.pre.archives)
        /\ SubSeq(board.archives, 1, Len(last.pre.archives))
              = last.pre.archives
        /\ (/\ last.op # "init"
            /\ board.halfmove_clock = last.pre.halfmove_clock + 1)
              => Len(board.archives) = Len(last.pre.archives) + 1
        /\ hist.resets = 0 => Len(board.archives) = hist.increments + 1

\* C5 witness: FULL, two increments of the clock and no reset, three archives.
C5_Witness ==
    /\ board.archive_mode = "FULL"
    /\ Returned /\ InsideBoard(last.pre, last.dest)
    /\ hist.increments = 2 /\ hist.resets = 0
    /\ board.halfmove_clock = last.pre.halfmove_clock + 1
    /\ Len(board.archives) = 3

\* C6: with archive_mode PARTIAL, right after a move that resets the halfmove
\* clock (a capture by any piece, or any pawn move) the archive list has
\* length exactly 1, whatever its length was before.
C6_PartialResetLeavesOne ==
    (/\ board.archive_mode = "PARTIAL"
     /\ Returned
     /\ (last.op = "Pawn.move" \/ last.ret # NonePiece))
        => Len(board.archives) = 1

\* C6 witness: PARTIAL, a list of two archives, then a capture by a piece
\* that is not a pawn.
C6_Witness ==
    /\ board.archive_mode = "PARTIAL"
    /\ Returned
    /\ last.op = "Piece.move" /\ last.ret # NonePiece
    /\ last.ret.id # last.self.id /\ InsideBoard(last.pre, last.dest)
    /\ Len(last.pre.archives) = 2
    /\ Len(board.archives) = 1

\* The square c shifted by n ranks in the direction color's pawns advance.
Ahead(c, color, n) == <<c[1], IF color = "WHITE" THEN c[2] + n ELSE c[2] - n>>

\* C7: after a pawn moved two ranks straight ahead, from (f, r) to (f, r+2)
\* for White or (f, r-2) for Black, to a dest that was not the en-passant
\* target, board.en_passant is the square it passed over, (f, r+1) resp.
\* (f, r-1).
C7_DoubleStepTarget ==
    (/\ Returned /\ last.op = "Pawn.move"
     /\ last.dest # last.pre.en_passant
     /\ last.dest = Ahead(last.self.pos, last.self.color, 2))
        => board.en_passant = Ahead(last.self.pos, last.self.color, 1)

\* C8: when a pawn moves one step diagonally ahead onto the en-passant
\* target, the piece removed and returned is the one standing one square
\* behind dest on the mover's side (dest's file, the rank the pawn came from).
C8_EnPassantVictim ==
    LET victim == <<last.dest[1], last.self.pos[2]>> IN
    (/\ Returned /\ last.op = "Pawn.move"
     /\ last.dest = last.pre.en_passant
     /\ last.dest[2] = Ahead(last.self.pos, last.self.color, 1)[2]
     /\ abs(last.dest[1] - last.self.pos[1]) = 1
     /\ Board_contains(last.pre, victim))
        => /\ last.ret = last.pre.piece_array[victim]
           /\ ~Board_contains(board, victim)

\* C9: after k successful moves from construction, turn = first_player iff k
\* is even, fullmove_clock = initial + floor(k/2), and turn is never NEUTRAL.
C9_TurnAndFullmove ==
    /\ board.turn \in PLAYER_COLORS
    /\ (board.turn = board.first_player) <=> (hist.moves % 2 = 0)
    /\ board.fullmove_clock = hist.fullmove0 + (hist.moves \div 2)

\* C10: after a successful move by a piece that is not a pawn, the value
\* returned is what stood on dest, and halfmove_clock is 0 if that was a
\* piece and its previous value plus 1 if dest was empty.
C10_HalfmoveAfterPieceMove ==
    (Returned /\ last.op = "Piece.move") =>
        /\ last.ret = Board_get(last.pre, last.dest)
        /\ board.halfmove_clock =
              IF Board_contains(last.pre, last.dest) THEN 0
              ELSE last.pre.halfmove_clock + 1

\* C10 witness: a capture after the clock had run, and a quiet move before.
C10_Witness ==
    /\ Returned /\ last.op = "Piece.move"
    /\ last.ret # NonePiece /\ last.ret.id # last.self.id
    /\ InsideBoard(last.pre, last.dest)
    /\ last.pre.halfmove_clock = 4
    /\ board.halfmove_clock = 0

\* C11: after any call of Pawn.move that returned, capturing or not,
\* promoting or not, halfmove_clock is 0.
C11_PawnMoveZeroesClock ==
    (Returned /\ last.op = "Pawn.move") => board.halfmove_clock = 0

\* C11 witness: a pawn's quiet step inside the board, after the clock had
\* run past 0.
C11_Witness ==
    /\ Returned /\ last.op = "Pawn.move"
    /\ InsideBoard(last.pre, last.dest)
    /\ last.ret = NonePiece /\ last.promotion = "None"
    /\ last.pre.halfmove_clock > 0
    /\ board.halfmove_clock = 0

\* The identities of the piece objects in board b's map.
Ids(b) == {b.piece_array[key].id : key \in DOMAIN b.piece_array}

\* After a returning move(dest, promotion = T): dest holds a newly
\* constructed piece of type T with the mover's color, pos = dest and the
\* mover's board, and the mover itself is in the map no more.
PromotedAtDest ==
    /\ Board_contains(board, last.dest)
    /\ LET placed == board.piece_array[last.dest] IN
       /\ placed.kind = last.promotion
       /\ placed.color = last.self.color
       /\ placed.pos = last.dest
       /\ placed.board = last.self.board
       /\ placed.id \notin Ids(last.pre)
    /\ last.self.id \notin Ids(board)

\* C12 as stated: after a returning move(dest, promotion = T) dest holds a
\* newly constructed T of the mover's color with pos = dest on the same
\* board, the mover is no longer in the map and its old square is empty.
C12_PromotionLeavesOldSquareEmpty ==
    (Returned /\ last.promotion # "None") =>
        /\ PromotedAtDest
        /\ ~Board_contains(board, last.self.pos)

\* C12 amended: as above, and the mover's old square is empty unless it is
\* dest itself, where the new piece then stands.
C12_PromotionReplacesMover ==
    (Returned /\ last.promotion # "None") =>
        /\ PromotedAtDest
        /\ last.dest # last.self.pos => ~Board_contains(board, last.self.pos)

\* C12 witness: a pawn promoted to a queen on a square of the board that is
\* not its own.
C12_Witness ==
    /\ Returned /\ last.op = "Pawn.move" /\ last.promotion = "Queen"
    /\ InsideBoard(last.pre, last.dest)
    /\ last.dest # last.self.pos
    /\ board.piece_array[last.dest].kind = "Queen"
    /\ ~Board_contains(board, last.self.pos)

\* C13: in every reachable state, for every piece p held by the board,
\* every square s of p.moves() is inside the board: 0 <= s.file < files and
\* 0 <= s.rank < ranks.
C13_MovesInsideBoard ==
    \A key \in DOMAIN board.piece_array :
        \A s \in Piece_moves(board, board.piece_array[key]) :
            InsideBoard(board, s)

\* C14: on any board, empty squares or not, p.attacked_by() returns (and
\* does not raise) exactly the set of the pieces q of the board with a color
\* other than p's and p.pos in q.moves().
C14_AttackedByExact ==
    \A key \in DOMAIN board.piece_array :
        LET p == board.piece_array[key]
            got == attacked_by(board, p)
        IN  /\ got.raised = "none"
            /\ got.ret = {q \in {board.piece_array[k] :
                                    k \in DOMAIN board.piece_array} :
                            /\ q.color # p.color
                            /\ p.pos \in Piece_moves(board, q)}

\* The last step was a call of the constructor.
Constructed == last.op = "Board.__init__"

\* What the FEN of the arguments a is, told from a alone: six fields, rows
\* of one width, a turn token w or b, castling letters out of KQkq and "-".
SixFields(a) == a.fields = 6

RowsEqual(a) == ~(a.ragged /\ a.ranks > 1)

TurnToken(a) == a.turn \in {<<"w">>, <<"b">>}

CastlingLetters(a) ==
    \A i \in 1..Len(a.castling) : a.castling[i] \in {"K", "Q", "k", "q", "-"}

WellFormed(a) ==
    SixFields(a) /\ RowsEqual(a) /\ TurnToken(a) /\ CastlingLetters(a)

\* C15: construction accepts a rectangular placement of at most 26 ranks and
\* at most 26 files (exactly 26 on an axis is valid) and rejects with a
\* ValueError one with more than 26 on either axis.
C15_SizesUpTo26 ==
    (Constructed /\ WellFormed(last.args) /\ last.args.pawn_ranks = <<>>) =>
        IF last.args.files <= 26 /\ last.args.ranks <= 26
        THEN /\ last.raised = "none"
             /\ board.files = last.args.files
             /\ board.ranks = last.args.ranks
        ELSE last.raised = "ValueError"

\* The pawn ranks C16 expects for the arguments a: a supplied rank is kept,
\* a missing one mirrors the other color's, ranks - 1 - v.
MirroredPawnRanks(a) ==
    [c \in PLAYER_COLORS |->
        IF c \in DOMAIN a.pawn_ranks THEN a.pawn_ranks[c]
        ELSE a.ranks - 1 - a.pawn_ranks[CHOOSE d \in DOMAIN a.pawn_ranks : TRUE]]

\* C16: construction with caller-supplied pawn ranks inside the board
\* succeeds and stores them: one color supplied, the other gets
\* ranks - 1 - v; both supplied, pawn_ranks is the supplied mapping.
C16_SuppliedPawnRanks ==
    (/\ Constructed /\ WellFormed(last.args)
     /\ last.args.files <= 26 /\ last.args.ranks <= 26
     /\ DOMAIN last.args.pawn_ranks # {}
     /\ \A c \in DOMAIN last.args.pawn_ranks :
            0 <= last.args.pawn_ranks[c]
                /\ last.args.pawn_ranks[c] < last.args.ranks)
        => /\ last.raised = "none"
           /\ board.pawn_ranks = MirroredPawnRanks(last.args)

\* C17: construction of a placement of at most 26 x 26 fails with a
\* ValueError when the castling field has a character outside K, Q, k, q
\* and "-", when there are not six fields, when the rows differ in width and
\* when the turn token is not w or b.
C17_MalformedFENRaises ==
    (/\ Constructed
     /\ last.args.files <= 26 /\ last.args.ranks <= 26
     /\ ~WellFormed(last.args))
        => last.raised = "ValueError"

\* C18: no call of move(), of any piece, changes castling_rights, files,
\* ranks, first_player or pawn_ranks: after every call, returned or raised,
\* each has the value it had before the call, hence the value construction
\* gave it.
C18_MoveKeepsConstants ==
    /\ board.castling_rights = last.pre.castling_rights
    /\ board.files = last.pre.files
    /\ board.ranks = last.pre.ranks
    /\ board.first_player = last.pre.first_player
    /\ board.pawn_ranks = last.pre.pawn_ranks

\* C18 witness: a rook has moved on a board with castling rights, and the
\* rights are still there.
C18_Witness ==
    /\ Returned /\ last.op = "Piece.move" /\ last.self.kind = "Rook"
    /\ InsideBoard(last.pre, last.dest) /\ last.dest # last.self.pos
    /\ last.pre.castling_rights = {"WHITE_KINGSIDE", "BLACK_QUEENSIDE"}
    /\ board.castling_rights = {"WHITE_KINGSIDE", "BLACK_QUEENSIDE"}

\* C19: a BoardArchive is an immutable snapshot.  Every piece an archive
\* holds is a copy (not one of the objects the live board holds, which
\* move() mutates) whose board is the archive; and a call of move() leaves
\* every archive it found in the list as it was, unless reset_halfmove
\* dropped the list (PARTIAL).
C19_ArchivesAreSnapshots ==
    /\ \A i \in 1..Len(board.archives) :
         \A key \in DOMAIN board.archives[i].piece_array :
            /\ board.archives[i].piece_array[key].board = "BoardArchive"
            /\ board.archives[i].piece_array[key].id \notin Ids(board)
    /\ ~(board.archive_mode = "PARTIAL" /\ last.clock = "reset") =>
         /\ Len(board.archives) >= Len(last.pre.archives)
         /\ SubSeq(board.archives, 1, Len(last.pre.archives))
               = last.pre.archives

\* C19 witness: FULL, the mover has left a square where the first archive,
\* found in the list before the call, still shows it.
C19_Witness ==
    /\ board.archive_mode = "FULL"
    /\ Returned /\ InsideBoard(last.pre, last.dest)
    /\ last.dest # last.self.pos
    /\ Len(last.pre.archives) >= 2
    /\ ~Board_contains(board, last.self.pos)
    /\ last.self.pos \in DOMAIN board.archives[1].piece_array
    /\ board.archives[1] = last.pre.archives[1]

\* The fields C20 names agree in x and y: castling rights, files, ranks,
\* pawn ranks, turn, and the same squares occupied by pieces of the same
\* kind and color.
SameFields(x, y) ==
    /\ x.castling_rights = y.castling_rights
    /\ x.files = y.files
    /\ x.ranks = y.ranks
    /\ x.pawn_ranks = y.pawn_ranks
    /\ x.turn = y.turn
    /\ DOMAIN x.piece_array = DOMAIN y.piece_array
    /\ \A key \in DOMAIN x.piece_array :
          /\ x.piece_array[key].kind = y.piece_array[key].kind
          /\ x.piece_array[key].color = y.piece_array[key].color

\* A board or archive x, and the boards or archives that differ from it in
\* one field: the castling rights, a dimension, the pawn ranks, the turn,
\* one piece's kind, one piece's color, one piece missing.
Variants(x) ==
    {x,
     [x EXCEPT !.castling_rights = @ \cup {"WHITE_QUEENSIDE"}],
     [x EXCEPT !.files = @ + 1],
     [x EXCEPT !.ranks = @ + 1],
     [x EXCEPT !.pawn_ranks = [c \in PLAYER_COLORS |-> @[c] + 1]],
     [x EXCEPT !.turn = IF @ = "WHITE" THEN "BLACK" ELSE "WHITE"]}
        \cup {[x EXCEPT !.piece_array[key].kind = "Knight"] :
                key \in DOMAIN x.piece_array}
        \cup {[x EXCEPT !.piece_array[key].color =
                          IF @ = "WHITE" THEN "BLACK" ELSE "WHITE"] :
                key \in DOMAIN x.piece_array}
        \cup {[x EXCEPT !.piece_array = Del(@, key)] :
                key \in DOMAIN x.piece_array}

\* Equality is asked of the boards and archives that at most MaxEqCalls
\* calls of move() leave behind.
MaxEqCalls == 1

EqNext == hist.calls < MaxEqCalls /\ Next

SpecEq == Init /\ [][EqNext]_vars

\* The archives of the live board.
Archives == {board.archives[i] : i \in 1..Len(board.archives)}

\* C20: for an archive a and a live board or an archive x, a == x and
\* x == a give the same result, and it is true exactly when castling rights,
\* files, ranks, pawn ranks, turn and the piece map (squares, kinds and
\* colors) match.
C20_ArchiveEqualitySymmetric ==
    \A a \in Archives :
        \A x \in Variants(board) \cup UNION {Variants(y) : y \in Archives} :
            /\ Equals(a, x) = Equals(x, a)
            /\ Equals(a, x) <=> SameFields(a, x)

\* C20 witness: after a piece's quiet move the newest archive and the live
\* board are equal, asked either way, and the oldest archive and the live
\* board are not.
C20_Witness ==
    /\ Returned /\ last.op = "Piece.move" /\ last.ret = NonePiece
    /\ InsideBoard(last.pre, last.dest)
    /\ Len(board.archives) >= 2
    /\ Equals(board, board.archives[Len(board.archives)])
    /\ Equals(board.archives[Len(board.archives)], board)
    /\ ~Equals(board, board.archives[1])
    /\ ~Equals(board.archives[1], board)

\* C21: for every coordinate c with both axes in [0, 26), str(c) is the
\* file letter followed by the 1-based rank in one or two digits, and
\* Coordinate(str(c)) returns a coordinate equal to c; two coordinates are
\* equal iff both axes match, and have the same hash file + rank * 32 iff
\* they are equal.
C21_StringRoundTrip ==
    last.op = "Coordinate(str)" =>
        /\ Len(last.text) \in {2, 3}
        /\ last.text[1] = Lower[last.self[1] + 1]
        /\ int(Tail(last.text)) = last.self[2] + 1
        /\ last.raised = "none"
        /\ Coordinate_eq(last.ret, last.self)
        /\ \A d \in AllCoords :
              /\ Coordinate_eq(last.self, d)
                    <=> (last.self[1] = d[1] /\ last.self[2] = d[2])
              /\ (Coordinate_hash(last.self) = Coordinate_hash(d))
                    <=> Coordinate_eq(last.self, d)

\* C21 witness: z26, the last coordinate, two digits of rank.
C21_Witness ==
    /\ last.op = "Coordinate(str)"
    /\ last.self = <<25, 25>>
    /\ last.text = <<"z", "2", "6">>
    /\ last.ret = <<25, 25>>

\* C22: c + (df, dr) returns (c.file + df, c.rank + dr) when both sums are
\* in [0, 26) and raises IndexError otherwise, never a clamped or wrapped
\* coordinate.
C22_OffsetOrRaise ==
    last.op = "Coordinate.__add__" =>
        IF /\ 0 <= last.self[1] + last.other[1]
           /\ last.self[1] + last.other[1] < 26
           /\ 0 <= last.self[2] + last.other[2]
           /\ last.self[2] + last.other[2] < 26
        THEN /\ last.raised = "none"
             /\ last.ret = <<last.self[1] + last.other[1],
                             last.self[2] + last.other[2]>>
        ELSE last.raised = "IndexError" /\ last.ret = NoneCoord

\* C22 witness: one file past the last one, y1 + (1, 0), raised.
C22_Witness ==
    /\ last.op = "Coordinate.__add__"
    /\ last.self = <<25, 0>> /\ last.other = <<1, 0>>
    /\ last.raised = "IndexError" /\ last.ret = NoneCoord

\* The squares of board b.
Squares(b) == (0..(b.files - 1)) \X (0..(b.ranks - 1))

\* The squares of b a knight's jump away from pos.
KnightSquares(b, pos) ==
    {s \in Squares(b) : {abs(s[1] - pos[1]), abs(s[2] - pos[2])} = {1, 2}}

\* C23: Knight.moves() is exactly the set of the squares of the board at
\* offsets (+-1, +-2) and (+-2, +-1) from the knight, whatever stands on
\* them or between.
C23_KnightMoves ==
    (last.op = "moves" /\ last.self.kind = "Knight") =>
        last.ret = KnightSquares(board, last.self.pos)

\* C23 witness: the knight on d4 of an 8x8 board, pieces around it and one
\* on b3: {b3, b5, c2, c6, e2, e6, f3, f5}.
C23_Witness ==
    /\ last.op = "moves" /\ last.self.kind = "Knight"
    /\ board.files = 8 /\ board.ranks = 8
    /\ last.self.pos = <<3, 3>>
    /\ Board_contains(board, <<1, 2>>) /\ Board_contains(board, <<3, 4>>)
    /\ last.ret = {<<1, 2>>, <<1, 4>>, <<2, 1>>, <<2, 5>>,
                   <<4, 1>>, <<4, 5>>, <<5, 2>>, <<5, 4>>}

\* The directions a sliding piece rides in.
Directions(kind) ==
    (IF kind \in {"Rook", "Queen"}
     THEN {<<1, 0>>, <<-1, 0>>, <<0, 1>>, <<0, -1>>} ELSE {})
        \cup (IF kind \in {"Bishop", "Queen"}
              THEN {<<1, 1>>, <<-1, 1>>, <<1, -1>>, <<-1, -1>>} ELSE {})

\* The squares of b from pos in direction d up to and with the first
\* occupied one, or up to the edge.
Line(b, pos, d) ==
    {s \in Squares(b) :
        \E k \in 1..(b.files + b.ranks) :
            /\ s = <<pos[1] + k * d[1], pos[2] + k * d[2]>>
            /\ \A j \in 1..(k - 1) :
                  ~Board_contains(b, <<pos[1] + j * d[1], pos[2] + j * d[2]>>)}

\* The lines of a sliding piece of this kind from pos.
SlidingSquares(b, kind, pos) ==
    UNION {Line(b, pos, d) : d \in Directions(kind)}

\* C24: for a Rook (4 orthogonal directions), a Bishop (4 diagonal) and a
\* Queen (all 8), moves() is in each direction every square from the piece
\* up to and including the first occupied one, of whatever color, and none
\* beyond; without a blocker the line runs to the edge.
C24_SlidingMoves ==
    (last.op = "moves" /\ last.self.kind \in {"Rook", "Bishop", "Queen"}) =>
        last.ret = SlidingSquares(board, last.self.kind, last.self.pos)

\* C24 witness: a White queen on d4, a White pawn next to it on e4 (in the
\* set), f4 behind the pawn (not in the set), the open file down to d1, and
\* a Black pawn on c3 (in the set) with b2 behind it (not in the set).
C24_Witness ==
    /\ last.op = "moves" /\ last.self.kind = "Queen"
    /\ last.self.color = "WHITE" /\ last.self.pos = <<3, 3>>
    /\ Board_contains(board, <<4, 3>>)
    /\ board.piece_array[<<4, 3>>].color = "WHITE"
    /\ <<4, 3>> \in last.ret /\ <<5, 3>> \notin last.ret
    /\ <<3, 0>> \in last.ret /\ <<2, 2>> \in last.ret /\ <<1, 1>> \notin last.ret

\* What is said of Pawn.moves() for pawn p of b: one step ahead if on the
\* board and empty; two steps ahead from pawn_ranks[color] if that square
\* and the one between are empty; each square diagonally ahead that is on
\* the board and is occupied or is b.en_passant.
PawnSquares(b, p) ==
    LET one == Ahead(p.pos, p.color, 1)
        two == Ahead(p.pos, p.color, 2)
    IN  {s \in Squares(b) :
           \/ s = one /\ ~Board_contains(b, s)
           \/ /\ s = two
              /\ p.pos[2] = b.pawn_ranks[p.color]
              /\ ~Board_contains(b, one)
              /\ ~Board_contains(b, s)
           \/ /\ s \in {<<one[1] - 1, one[2]>>, <<one[1] + 1, one[2]>>}
              /\ (Board_contains(b, s) \/ s = b.en_passant)}

\* C25: for every pawn p held by the board, p.moves() is exactly: the square
\* one step forward (rank + 1 for White, rank - 1 for Black) if it is on the
\* board and empty; the square two steps forward if the pawn is on
\* pawn_ranks[color] and that square and the one between are empty; each of
\* the two squares diagonally forward that is on the board and is occupied
\* or is board.en_passant.
C25_PawnMoves ==
    \A key \in DOMAIN board.piece_array :
        LET p == board.piece_array[key] IN
        p.kind = "Pawn" => Piece_moves(board, p) = PawnSquares(board, p)

\* C26: after any successful move(), board.en_passant is empty unless the
\* move was a Pawn.move from a rank two away from the destination's and the
\* destination was not the en-passant target of before; so after every
\* move of another piece and after every move onto the en-passant target
\* it is empty.
C26_EnPassantOneMove ==
    Returned =>
        (board.en_passant # NoneCoord =>
            /\ last.op = "Pawn.move"
            /\ last.self.pos[2] - last.dest[2] \in {2, -2}
            /\ last.dest # last.pre.en_passant)

\* C26 witness: a pawn went two ranks onto the en-passant target, and the
\* target is gone.
C26_Witness ==
    /\ Returned
    /\ last.op = "Pawn.move"
    /\ last.pre.en_passant # NoneCoord
    /\ last.dest = last.pre.en_passant
    /\ last.self.pos[2] - last.dest[2] \in {2, -2}
    /\ board.en_passant = NoneCoord

\* C27: board[key] = piece raises IndexError and stores nothing whenever key
\* is not a space of the board, key.file >= files or key.rank >= ranks.
C27_SetItemBoundsChecked ==
    (/\ last.op = "__setitem__"
     /\ (last.key[1] >= last.pre.files \/ last.key[2] >= last.pre.ranks)) =>
        /\ last.raised = "IndexError"
        /\ board = last.pre

C29_PartialArchivesSinceReset ==
    /\ Len(board.archives) = board.halfmove_clock + 1
    /\ Len(board.archives) >= 1
    /\ (last.op = "init" \/ Returned) =>
          Equals(board.archives[Len(board.archives)], board)
    /\ (Returned /\ board.halfmove_clock > 0) =>
          SubSeq(board.archives, 1, Len(board.archives) - 1)
              = last.pre.archives

\* The objects a call of move() took off the board, the mover aside (a
\* promotion puts a new object in the mover's place).
RemovedOthers == (Ids(last.pre) \ Ids(board)) \ {last.self.id}

\* C30: every successful move() either returns None and leaves the number
\* of pieces on the board as it was, or returns a captured piece, which is
\* not the mover and is the only piece removed, and the number of pieces is
\* one less; for every destination, the mover's own square and an occupied
\* en-passant target included.
C30_CaptureAccounting ==
    Returned =>
        LET before == Cardinality(DOMAIN last.pre.piece_array)
            after == Cardinality(DOMAIN board.piece_array)
        IN  \/ /\ last.ret = NonePiece
               /\ after = before
               /\ RemovedOthers = {}
            \/ /\ last.ret # NonePiece
               /\ last.ret.id # last.self.id
               /\ after = before - 1
               /\ RemovedOthers = {last.ret.id}

====
